---- MODULE Spec2Model ----
(***************************************************************************)
(* Chat facade servers of the repository: the canned-response handlers     *)
(* (gemma2_server.py and its near copies), the model-backed Flask server   *)
(* (tinyllama_server.py) and the Qwen bridge (qwen-bridge-minimal.py).     *)
(*                                                                         *)
(* Text is a sequence of one-character strings, so that str.lower() and    *)
(* the substring test `word in query_lower` are computed, not assumed.     *)
(* A static template is one opaque token of the response text; an f-string *)
(* is the concatenation of its template tokens and the interpolated text.  *)
(***************************************************************************)
EXTENDS Integers, Sequences, FiniteSets, TLC

VARIABLES variant, lifecycle, MODEL_READY, pc, req, resp, errored, malformed,
          calls, memo, clients, backlog, serverThread, modelCheck,
          packageJson, setupRun

vars == <<variant, lifecycle, MODEL_READY, pc, req, resp, errored, malformed,
          calls, memo, clients, backlog, serverThread, modelCheck,
          packageJson, setupRun>>

\* The variables of the accept loop and its connections.
loop == <<clients, backlog, serverThread>>

\* package.json of the project directory and the run of the setup script.
project == <<packageJson, setupRun>>

(***************************************************************************)
(* Bounds of the model.                                                    *)
(***************************************************************************)
MaxMsgs == 2
MaxWords == 2
MaxRuns == 2

(***************************************************************************)
(* Text: str.lower() and the `in` operator on strings.                     *)
(***************************************************************************)
UpperChars == <<"A","B","C","D","E","F","G","H","I","J","K","L","M",
                "N","O","P","Q","R","S","T","U","V","W","X","Y","Z">>
LowerChars == <<"a","b","c","d","e","f","g","h","i","j","k","l","m",
                "n","o","p","q","r","s","t","u","v","w","x","y","z">>

LowerChar(c) ==
    IF \E i \in 1..Len(UpperChars) : UpperChars[i] = c
    THEN LowerChars[CHOOSE i \in 1..Len(UpperChars) : UpperChars[i] = c]
    ELSE c

\* Faulty variant: the text is matched as typed.
lower_asTyped(s) == s

\* str.lower()
lower(s) == [i \in 1..Len(s) |-> LowerChar(s[i])]

\* Python: word in text
Contains(text, word) ==
    \E i \in 1..(Len(text) - Len(word) + 1) :
        SubSeq(text, i, i + Len(word) - 1) = word

\* Python: any(word in text for word in words)
anyWordIn(words, text) == \E k \in 1..Len(words) : Contains(text, words[k])

kw_failure == <<"f","a","i","l","u","r","e">>
kw_fail == <<"f","a","i","l">>
kw_error == <<"e","r","r","o","r">>
kw_anomaly == <<"a","n","o","m","a","l","y">>
kw_anomalies == <<"a","n","o","m","a","l","i","e","s">>
kw_unusual == <<"u","n","u","s","u","a","l">>
kw_bottleneck == <<"b","o","t","t","l","e","n","e","c","k">>
kw_slow == <<"s","l","o","w">>
kw_delay == <<"d","e","l","a","y">>
kw_time == <<"t","i","m","e">>
kw_performance == <<"p","e","r","f","o","r","m","a","n","c","e">>
kw_equipment == <<"e","q","u","i","p","m","e","n","t">>
kw_machine == <<"m","a","c","h","i","n","e">>
kw_station == <<"s","t","a","t","i","o","n">>
kw_duration == <<"d","u","r","a","t","i","o","n">>
kw_speed == <<"s","p","e","e","d">>

(***************************************************************************)
(* The canned-response generators.  Each returns the branch taken (topic)  *)
(* and the text returned by that branch.                                   *)
(***************************************************************************)
Static(topic, token) == [topic |-> topic, text |-> <<token>>]
\* Faulty variant: the f-string interpolates query_lower instead of query.
Echo_lowercased(head, query, tail) ==
    [topic |-> "Default", text |-> <<head>> \o lower(query) \o <<tail>>]

Echo(head, query, tail) ==
    [topic |-> "Default", text |-> <<head>> \o query \o <<tail>>]

\* Faulty variant: the anomaly branch is tested before the failure branch.
generate_gemma_response_anomalyFirst(query) ==
    LET query_lower == lower(query) IN
    IF anyWordIn(<<kw_anomaly, kw_anomalies, kw_unusual>>, query_lower)
    THEN Static("Anomaly-Detection", "gemma2:Anomaly Detection Report")
    ELSE IF anyWordIn(<<kw_failure, kw_fail, kw_error>>, query_lower)
    THEN Static("Failure-Analysis", "gemma2:Manufacturing Failure Analysis")
    ELSE IF anyWordIn(<<kw_bottleneck, kw_slow, kw_delay, kw_time>>, query_lower)
    THEN Static("Bottleneck", "gemma2:Process Bottleneck Analysis")
    ELSE IF anyWordIn(<<kw_equipment, kw_machine, kw_station>>, query_lower)
    THEN Static("Equipment", "gemma2:Equipment Performance Analysis")
    ELSE Echo("gemma2:Query Received:", query, "gemma2:Available Analysis Capabilities")

\* gemma2_server.py
generate_gemma_response(query) ==
    LET query_lower == lower(query) IN
    IF anyWordIn(<<kw_failure, kw_fail, kw_error>>, query_lower)
    THEN Static("Failure-Analysis", "gemma2:Manufacturing Failure Analysis")
    ELSE IF anyWordIn(<<kw_anomaly, kw_anomalies, kw_unusual>>, query_lower)
    THEN Static("Anomaly-Detection", "gemma2:Anomaly Detection Report")
    ELSE IF anyWordIn(<<kw_bottleneck, kw_slow, kw_delay, kw_time>>, query_lower)
    THEN Static("Bottleneck", "gemma2:Process Bottleneck Analysis")
    ELSE IF anyWordIn(<<kw_equipment, kw_machine, kw_station>>, query_lower)
    THEN Static("Equipment", "gemma2:Equipment Performance Analysis")
    ELSE Echo("gemma2:Query Received:", query, "gemma2:Available Analysis Capabilities")

\* simple_tinyllama_server.py
simple_tinyllama_generate_manufacturing_response(query) ==
    LET query_lower == lower(query) IN
    IF anyWordIn(<<kw_failure, kw_fail, kw_error>>, query_lower)
    THEN Static("Failure-Analysis", "simple_tinyllama:failure")
    ELSE IF anyWordIn(<<kw_anomaly, kw_anomalies, kw_unusual>>, query_lower)
    THEN Static("Anomaly-Detection", "simple_tinyllama:anomaly")
    ELSE IF anyWordIn(<<kw_bottleneck, kw_slow, kw_delay>>, query_lower)
    THEN Static("Bottleneck", "simple_tinyllama:bottleneck")
    ELSE IF anyWordIn(<<kw_equipment, kw_machine, kw_station>>, query_lower)
    THEN Static("Equipment", "simple_tinyllama:equipment")
    ELSE IF anyWordIn(<<kw_time, kw_duration, kw_speed>>, query_lower)
    THEN Static("Timing", "simple_tinyllama:temporal")
    ELSE Echo("simple_tinyllama:Your Question:", query, "simple_tinyllama:For more detailed analysis")

\* start_gemma2_server.py
start_gemma2_generate_manufacturing_response(query) ==
    LET query_lower == lower(query) IN
    IF anyWordIn(<<kw_failure, kw_fail, kw_error>>, query_lower)
    THEN Static("Failure-Analysis", "start_gemma2:failure")
    ELSE IF anyWordIn(<<kw_anomaly, kw_anomalies, kw_unusual>>, query_lower)
    THEN Static("Anomaly-Detection", "start_gemma2:anomaly")
    ELSE IF anyWordIn(<<kw_bottleneck, kw_slow, kw_delay, kw_performance>>, query_lower)
    THEN Static("Bottleneck", "start_gemma2:bottleneck")
    ELSE Echo("start_gemma2:Your query:", query, "start_gemma2:Local AI Analysis Status")

\* start_gemma2_server_for_your_folder.py
your_folder_generate_manufacturing_response(query) ==
    LET query_lower == lower(query) IN
    IF anyWordIn(<<kw_failure, kw_fail, kw_error>>, query_lower)
    THEN Static("Failure-Analysis", "your_folder:failure")
    ELSE IF anyWordIn(<<kw_anomaly, kw_anomalies, kw_unusual>>, query_lower)
    THEN Static("Anomaly-Detection", "your_folder:anomaly")
    ELSE IF anyWordIn(<<kw_bottleneck, kw_slow, kw_delay, kw_performance>>, query_lower)
    THEN Static("Bottleneck", "your_folder:bottleneck")
    ELSE Echo("your_folder:Your Query:", query, "your_folder:Local AI Status")

\* Faulty variant: the failure template is an f-string that quotes the query.
FIXED_generate_manufacturing_response_fstring(query) ==
    LET query_lower == lower(query) IN
    IF anyWordIn(<<kw_failure, kw_fail, kw_error>>, query_lower)
    THEN [topic |-> "Failure-Analysis", text |-> <<"FIXED:failure">> \o query]
    ELSE IF anyWordIn(<<kw_anomaly, kw_anomalies, kw_unusual>>, query_lower)
    THEN Static("Anomaly-Detection", "FIXED:anomaly")
    ELSE Echo("FIXED:Your Query:", query, "FIXED:Local AI Status")

\* FIXED_GEMMA_SERVER.py
FIXED_generate_manufacturing_response(query) ==
    LET query_lower == lower(query) IN
    IF anyWordIn(<<kw_failure, kw_fail, kw_error>>, query_lower)
    THEN Static("Failure-Analysis", "FIXED:failure")
    ELSE IF anyWordIn(<<kw_anomaly, kw_anomalies, kw_unusual>>, query_lower)
    THEN Static("Anomaly-Detection", "FIXED:anomaly")
    ELSE Echo("FIXED:Your Query:", query, "FIXED:Local AI Status")

\* test_gemma2_server.py: no classifier, the f-string is built in do_POST.
test_gemma2_response_text(user_query) ==
    [topic |-> "Test",
     text |-> <<"test_gemma2:Your query:">> \o user_query \o <<"test_gemma2:model successfully loaded">>]

(***************************************************************************)
(* The scripts, and the response generator each handler class calls.       *)
(***************************************************************************)
CannedVariants == {"gemma2_server", "simple_tinyllama_server", "start_gemma2_server",
                   "start_gemma2_server_for_your_folder", "FIXED_GEMMA_SERVER",
                   "test_gemma2_server"}
\* The canned variants whose response comes from a keyword classifier.
ClassifierVariants == CannedVariants \ {"test_gemma2_server"}
\* The scripts whose main() checks for the model files before serving.
CheckVariants == {"start_gemma2_server", "start_gemma2_server_for_your_folder",
                  "FIXED_GEMMA_SERVER", "test_gemma2_server"}
Variants == CannedVariants \cup {"tinyllama_server", "qwen_bridge_minimal"}

\* self.generate_gemma_response / self.generate_manufacturing_response /
\* the f-string of test_gemma2_server.py
response_text(v, user_query) ==
    CASE v = "gemma2_server" -> generate_gemma_response(user_query)
      [] v = "simple_tinyllama_server" ->
            simple_tinyllama_generate_manufacturing_response(user_query)
      [] v = "start_gemma2_server" ->
            start_gemma2_generate_manufacturing_response(user_query)
      [] v = "start_gemma2_server_for_your_folder" ->
            your_folder_generate_manufacturing_response(user_query)
      [] v = "FIXED_GEMMA_SERVER" -> FIXED_generate_manufacturing_response(user_query)
      [] v = "test_gemma2_server" -> test_gemma2_response_text(user_query)

(***************************************************************************)
(* JSON values of a request body.  A value is tagged with its JSON type;   *)
(* v is its text (for a number: what str() prints).                        *)
(***************************************************************************)
JStr(s) == [t |-> "str", v |-> s]
JNum == [t |-> "num", v |-> <<"5">>]
JAbsent == [t |-> "absent", v |-> <<>>]

txt_equipment_status == <<"s","h","o","w"," ","m","e"," ","e","q","u","i","p","m","e","n","t"," ","s","t","a","t","u","s">>
txt_hello == <<"H","e","l","l","o"," ","T","h","e","r","e">>

Roles == {"system", "user", "assistant"}
NoRole == "<absent>"

\* One element of `messages`: a JSON object with optional keys role, content.
Contents == {JStr(txt_equipment_status), JStr(txt_hello), JNum, JAbsent}
Msgs == [role : Roles \cup {NoRole}, content : Contents]

\* The body of a POST: not JSON at all, JSON that is no object, or an object
\* whose `messages` key is absent, null, or a list.
BodyInvalid == [json |-> "invalid", messages |-> "absent", list |-> <<>>]
BodyNonObject == [json |-> "nonobject", messages |-> "absent", list |-> <<>>]
BodyNoMessages == [json |-> "object", messages |-> "absent", list |-> <<>>]
BodyNullMessages == [json |-> "object", messages |-> "null", list |-> <<>>]
BodyMessages(l) == [json |-> "object", messages |-> "list", list |-> l]
\* A JSON object with a `prompt` key.
BodyPrompt(p) == [json |-> "object", messages |-> "absent", list |-> <<>>, prompt |-> p]
PromptOf(body) == IF "prompt" \in DOMAIN body THEN body.prompt ELSE JAbsent

\* The Content-Length header: present and numeric, missing, or not a number.
ContentLengths == {"ok", "missing", "nonnumeric"}
Methods == {"GET", "POST"}
Paths == {"/health", "/v1/models", "/v1/chat/completions",
          "/generate", "/api/health", "/other"}
ChatPath == "/v1/chat/completions"

NoReq == [method |-> "none", path |-> "none", contentLength |-> "ok",
          body |-> BodyNoMessages]

(***************************************************************************)
(* What a handler leaves behind for one request.  status 0: no status line *)
(* was written.  raised: an exception left the handler.  writes: the calls *)
(* on the connection in order, and json.dumps where the body is built.     *)
(* data: the keys of each entry of the body's `data` list.                 *)
(* statusField, model_loaded: the values of these fields of a health body. *)
(* invoked: the tokenizer and the model were called; prompt: with this     *)
(* text.  allowOrigin: the Access-Control-Allow-Origin header.             *)
(***************************************************************************)
NoResp == [status |-> 0, keys |-> {}, role |-> "", finish_reason |-> "",
           content |-> <<>>, topic |-> "", classified |-> FALSE,
           query |-> <<>>, raised |-> FALSE, writes |-> <<>>, data |-> <<>>,
           statusField |-> "", model_loaded |-> "absent",
           invoked |-> FALSE, prompt |-> <<>>, allowOrigin |-> ""]

Raised == [NoResp EXCEPT !.raised = TRUE]

\* The clients of the server; none has a connection.
Clients == {"c1", "c2", "c3"}
NoClients == [c \in Clients |-> "idle"]

\* No answered request is remembered.
NoMemo == [set |-> FALSE, req |-> NoReq, resp |-> NoResp]

NotFound == [NoResp EXCEPT !.status = 404, !.writes = <<"send_response(404)", "end_headers">>]

ErrorResponse ==
    [NoResp EXCEPT !.status = 500, !.keys = {"error"},
        !.writes = <<"send_response(500)", "end_headers", "json.dumps", "wfile.write">>]

ChatResponse(r) ==
    [NoResp EXCEPT !.status = 200, !.keys = {"choices", "model"},
        !.role = "assistant", !.finish_reason = "stop",
        !.content = r.text, !.topic = r.topic,
        !.writes = <<"send_response(200)", "end_headers", "json.dumps", "wfile.write">>]

(***************************************************************************)
(* do_POST of the canned-response handlers.                                *)
(***************************************************************************)
\* Faulty variant: the loop reads a key the user message does not have.
RECURSIVE ExtractUserQuery_wrongKey(_, _)
ExtractUserQuery_wrongKey(messages, i) ==
    IF i > Len(messages) THEN [err |-> FALSE, q |-> JStr(<<>>)]
    ELSE IF messages[i].role = NoRole THEN [err |-> TRUE, q |-> JAbsent]
    ELSE IF messages[i].role = "user" THEN [err |-> TRUE, q |-> JAbsent]
    ELSE ExtractUserQuery_wrongKey(messages, i + 1)

\* Faulty variant: the loop has no break, so the last user message wins.
RECURSIVE ExtractUserQuery_noBreak(_, _)
ExtractUserQuery_noBreak(messages, i) ==
    IF i > Len(messages) THEN [err |-> FALSE, q |-> JStr(<<>>)]
    ELSE IF messages[i].role = NoRole THEN [err |-> TRUE, q |-> JAbsent]
    ELSE LET rest == ExtractUserQuery_noBreak(messages, i + 1)
             later == \E j \in (i + 1)..Len(messages) : messages[j].role = "user"
         IN IF messages[i].role = "user" /\ messages[i].content.t = "absent"
            THEN [err |-> TRUE, q |-> JAbsent]
            ELSE IF messages[i].role = "user" /\ ~rest.err /\ ~later
            THEN [err |-> FALSE, q |-> messages[i].content]
            ELSE rest

\* Faulty variant: every element is read before the first user message
\* is looked for.
ExtractUserQuery_readsAll(messages, i) ==
    IF \E j \in i..Len(messages) :
           messages[j].role = NoRole \/ messages[j].content.t = "absent"
    THEN [err |-> TRUE, q |-> JAbsent]
    ELSE IF \E j \in i..Len(messages) : messages[j].role = "user"
    THEN [err |-> FALSE,
          q |-> messages[CHOOSE j \in i..Len(messages) :
                             /\ messages[j].role = "user"
                             /\ \A k \in i..(j - 1) : messages[k].role # "user"].content]
    ELSE [err |-> FALSE, q |-> JStr(<<>>)]

\* for msg in messages: if msg['role'] == 'user': user_query = msg['content']; break
\* err: msg['role'] or msg['content'] raised KeyError.
RECURSIVE ExtractUserQuery(_, _)
ExtractUserQuery(messages, i) ==
    IF i > Len(messages) THEN [err |-> FALSE, q |-> JStr(<<>>)]
    ELSE IF messages[i].role = NoRole THEN [err |-> TRUE, q |-> JAbsent]
    ELSE IF messages[i].role = "user"
         THEN IF messages[i].content.t = "absent"
              THEN [err |-> TRUE, q |-> JAbsent]
              ELSE [err |-> FALSE, q |-> messages[i].content]
    ELSE ExtractUserQuery(messages, i + 1)

\* Faulty variant: request_data['messages'] instead of .get('messages', []).
ChatTry_noDefault(request, v) ==
    IF request.body.json = "invalid" THEN ErrorResponse
    ELSE IF request.body.json = "nonobject" THEN ErrorResponse
    ELSE IF request.body.messages = "null" THEN ErrorResponse
    ELSE IF request.body.messages = "absent" THEN ErrorResponse
    ELSE LET x == ExtractUserQuery(request.body.list, 1)
         IN IF x.err THEN ErrorResponse
            ELSE IF v \in ClassifierVariants /\ x.q.t # "str"
                 THEN [ErrorResponse EXCEPT !.classified = TRUE, !.query = x.q.v]
            ELSE [ChatResponse(response_text(v, x.q.v)) EXCEPT
                     !.classified = (v \in ClassifierVariants), !.query = x.q.v]

\* Faulty variant: json.loads is called before the try.
ChatTry_loadsOutsideTry(request, v) ==
    IF request.body.json = "invalid" THEN Raised
    ELSE IF request.body.json = "nonobject" THEN ErrorResponse
    ELSE IF request.body.messages = "null" THEN ErrorResponse
    ELSE LET messages == IF request.body.messages = "absent" THEN <<>>
                         ELSE request.body.list
             x == ExtractUserQuery(messages, 1)
         IN IF x.err THEN ErrorResponse
            ELSE IF v \in ClassifierVariants /\ x.q.t # "str"
                 THEN [ErrorResponse EXCEPT !.classified = TRUE, !.query = x.q.v]
            ELSE [ChatResponse(response_text(v, x.q.v)) EXCEPT
                     !.classified = (v \in ClassifierVariants), !.query = x.q.v]

\* The try block: json.loads, request_data.get('messages', []), the loop,
\* the generator, then the 200 response; any exception gives the 500 one.
\* The generators of the classifier variants call query.lower(), which only
\* a str has.
ChatTry(request, v) ==
    IF request.body.json = "invalid" THEN ErrorResponse
    ELSE IF request.body.json = "nonobject" THEN ErrorResponse
    ELSE IF request.body.messages = "null" THEN ErrorResponse
    ELSE LET messages == IF request.body.messages = "absent" THEN <<>>
                         ELSE request.body.list
             x == ExtractUserQuery(messages, 1)
         IN IF x.err THEN ErrorResponse
            ELSE IF v \in ClassifierVariants /\ x.q.t # "str"
                 THEN [ErrorResponse EXCEPT !.classified = TRUE, !.query = x.q.v]
            ELSE [ChatResponse(response_text(v, x.q.v)) EXCEPT
                     !.classified = (v \in ClassifierVariants), !.query = x.q.v]

\* Faulty variant: once a request has failed the handler keeps failing.
CannedPost_afterError(request, v, elseNotFound) ==
    IF request.path = ChatPath
    THEN IF request.contentLength # "ok" THEN Raised
         ELSE IF errored THEN ErrorResponse
         ELSE ChatTry(request, v)
    ELSE IF elseNotFound THEN NotFound ELSE NoResp

\* content_length = int(self.headers['Content-Length']) is outside the try.
CannedPost(request, v, elseNotFound) ==
    IF request.path = ChatPath
    THEN IF request.contentLength # "ok" THEN Raised
         ELSE ChatTry(request, v)
    ELSE IF elseNotFound THEN NotFound ELSE NoResp

gemma2_do_POST(request) ==
    CannedPost(request, "gemma2_server", TRUE)

simple_tinyllama_do_POST(request) ==
    CannedPost(request, "simple_tinyllama_server", TRUE)

start_gemma2_do_POST(request) ==
    CannedPost(request, "start_gemma2_server", FALSE)

your_folder_do_POST(request) ==
    CannedPost(request, "start_gemma2_server_for_your_folder", FALSE)

FIXED_do_POST(request) ==
    CannedPost(request, "FIXED_GEMMA_SERVER", FALSE)

test_gemma2_do_POST(request) ==
    CannedPost(request, "test_gemma2_server", FALSE)

(***************************************************************************)
(* do_GET of the canned-response handlers.                                 *)
(***************************************************************************)
JsonOk(keys) ==
    [NoResp EXCEPT !.status = 200, !.keys = keys,
        !.writes = <<"send_response(200)", "end_headers", "json.dumps", "wfile.write">>]

HealthKeys == {"status", "model", "model_loaded"}
\* The keys of the one entry of /v1/models.
ModelEntryKeys == {"id", "object", "created", "owned_by"}

\* /health, /v1/models where the handler has that branch, else 404.
CannedGet(request, extraHealthKeys, hasModels) ==
    IF request.path = "/health"
    THEN [JsonOk(HealthKeys \cup extraHealthKeys) EXCEPT
             !.statusField = "healthy", !.model_loaded = "true"]
    ELSE IF hasModels /\ request.path = "/v1/models"
    THEN [JsonOk({"data"}) EXCEPT !.data = <<ModelEntryKeys>>]
    ELSE NotFound

gemma2_do_GET(request) == CannedGet(request, {"provider"}, TRUE)
simple_tinyllama_do_GET(request) == CannedGet(request, {}, TRUE)
start_gemma2_do_GET(request) == CannedGet(request, {"privacy"}, TRUE)
your_folder_do_GET(request) == CannedGet(request, {"location", "privacy"}, FALSE)
FIXED_do_GET(request) == CannedGet(request, {"location", "privacy"}, FALSE)
test_gemma2_do_GET(request) == CannedGet(request, {"test_mode"}, FALSE)

(***************************************************************************)
(* tinyllama_server.py: the model-backed Flask application.                *)
(***************************************************************************)
FlaskJson(status, keys) ==
    [NoResp EXCEPT !.status = status, !.keys = keys, !.writes = <<"response">>]

\* Faulty variant: the list of a loaded model is empty.
models_noEntry(ready) ==
    IF ready THEN FlaskJson(200, {"data"}) ELSE FlaskJson(500, {"error"})

models(ready) ==
    IF ready THEN [FlaskJson(200, {"data"}) EXCEPT !.data = <<ModelEntryKeys>>]
    ELSE FlaskJson(500, {"error"})

\* Faulty variant: a server whose model did not load answers 503.
health_whileLoading(ready) ==
    IF ready THEN FlaskJson(200, HealthKeys) ELSE FlaskJson(503, {"status", "model"})

\* Faulty variant: the status does not look at MODEL_READY.
health_alwaysHealthy(ready) ==
    [FlaskJson(200, HealthKeys) EXCEPT
        !.statusField = "healthy",
        !.model_loaded = IF ready THEN "true" ELSE "false"]

health(ready) ==
    [FlaskJson(200, HealthKeys) EXCEPT
        !.statusField = IF ready THEN "healthy" ELSE "loading",
        !.model_loaded = IF ready THEN "true" ELSE "false"]

\* for msg in messages: role = msg['role']; content = msg['content']
PromptBuilds(messages) ==
    \A i \in 1..Len(messages) :
        messages[i].role # NoRole /\ messages[i].content.t # "absent"

\* The tag that opens a message of the role in the TinyLlama prompt format.
RoleTag(role) ==
    CASE role = "system" -> "<|system|>\n"
      [] role = "user" -> "<|user|>\n"
      [] role = "assistant" -> "<|assistant|>\n"

\* Faulty variant: a message of any other role is rendered as a user message.
PromptSegment_everyRole(msg) ==
    IF msg.role \in {"system", "assistant"}
    THEN <<RoleTag(msg.role)>> \o msg.content.v \o <<"</s>\n">>
    ELSE <<RoleTag("user")>> \o msg.content.v \o <<"</s>\n">>

\* prompt += f"<|role|>\n{content}</s>\n" for the three roles, nothing for another.
PromptSegment(msg) ==
    IF msg.role \in {"system", "user", "assistant"}
    THEN <<RoleTag(msg.role)>> \o msg.content.v \o <<"</s>\n">>
    ELSE <<>>

RECURSIVE PromptSegments(_)
PromptSegments(messages) ==
    IF messages = <<>> THEN <<>>
    ELSE PromptSegment(Head(messages)) \o PromptSegments(Tail(messages))

\* prompt = ""; for msg in messages: ...; prompt += "<|assistant|>\n"
BuildPrompt(messages) == PromptSegments(messages) \o <<"<|assistant|>\n">>

\* generated: tokenizer and model.generate returned without raising.
chat(ready, request, generated) ==
    IF ~ready THEN FlaskJson(500, {"error"})
    ELSE IF request.contentLength # "ok" THEN FlaskJson(500, {"error"})
    ELSE IF request.body.json # "object" THEN FlaskJson(500, {"error"})
    ELSE IF request.body.messages = "null" THEN FlaskJson(500, {"error"})
    ELSE IF ~PromptBuilds(request.body.list) THEN FlaskJson(500, {"error"})
    ELSE IF ~generated
    THEN [FlaskJson(500, {"error"}) EXCEPT
             !.invoked = TRUE, !.prompt = BuildPrompt(request.body.list)]
    ELSE [FlaskJson(200, {"choices", "model"}) EXCEPT
             !.role = "assistant", !.finish_reason = "stop",
             !.content = <<"tinyllama:generated text">>,
             !.invoked = TRUE, !.prompt = BuildPrompt(request.body.list)]

\* @app.route: a path of no route is 404, a route under another method 405.
tinyllama_app(ready, request, generated) ==
    IF request.path = "/v1/models"
    THEN IF request.method = "GET" THEN models(ready) ELSE FlaskJson(405, {})
    ELSE IF request.path = ChatPath
    THEN IF request.method = "POST" THEN chat(ready, request, generated)
         ELSE FlaskJson(405, {})
    ELSE IF request.path = "/health"
    THEN IF request.method = "GET" THEN health(ready) ELSE FlaskJson(405, {})
    ELSE FlaskJson(404, {})

(***************************************************************************)
(* qwen-bridge-minimal.py                                                  *)
(***************************************************************************)
\* do_OPTIONS answers on every path.
QwenHandler_do_OPTIONS(request) ==
    [NoResp EXCEPT !.status = 200, !.allowOrigin = "*",
        !.writes = <<"send_response(200)", "end_headers">>]

\* Faulty variant: a path the handler does not know is answered 404.
QwenHandler_do_GET_notFound(request) ==
    IF request.path = "/api/health"
    THEN [JsonOk({"status", "model"}) EXCEPT
             !.statusField = "connected", !.allowOrigin = "*"]
    ELSE NotFound

QwenHandler_do_GET(request) ==
    IF request.path = "/api/health"
    THEN [JsonOk({"status", "model"}) EXCEPT
             !.statusField = "connected", !.allowOrigin = "*"]
    ELSE NoResp

\* No try: int(...), json.loads and data.get raise out of the handler.
\* response_text = f"Qwen Analysis: {data.get('prompt', '')}"
QwenHandler_do_POST(request) ==
    IF request.path = "/generate"
    THEN IF request.contentLength # "ok" THEN Raised
         ELSE IF request.body.json # "object" THEN Raised
         ELSE [JsonOk({"response", "model"}) EXCEPT
                  !.content = <<"Qwen Analysis: ">> \o PromptOf(request.body).v,
                  !.allowOrigin = "*"]
    ELSE NoResp

(***************************************************************************)
(* The tunnel proxies (complete-localtunnel-setup.py and the docs/colab-    *)
(* scripts): a Flask application in front of a local Ollama service.       *)
(***************************************************************************)
\* The four scripts with the same generate() and health(), and the one
\* that looks at the upstream status.
PlainProxyVariants == {"complete_localtunnel_setup", "colab_setup_simple",
                       "colab_setup_no_tokens", "colab_setup_alternative"}
ProxyVariants == PlainProxyVariants \cup {"google_colab_setup"}
AllVariants == Variants \cup ProxyVariants

GenerateUrl == "http://localhost:11434/api/generate"
TagsUrl == "http://localhost:11434/api/tags"
GenerateTimeout == 60
TagsTimeout == 5

\* What the upstream does with one call: it answers with a status and a
\* body that is JSON or not, or the call times out, or nothing listens.
UpstreamStatuses == {200, 404, 500}
UpstreamAnswer(status, isJson) ==
    [kind |-> "response", status |-> status, isJson |-> isJson,
     keys |-> IF ~isJson THEN {}
              ELSE IF status = 200 THEN {"model", "response", "done"}
              ELSE {"error"},
     body |-> IF ~isJson THEN "ollama:text"
              ELSE IF status = 200 THEN "ollama:generated" ELSE "ollama:error"]
UpstreamTimeout == [kind |-> "timeout", status |-> 0, isJson |-> FALSE, keys |-> {}, body |-> ""]
UpstreamRefused == [kind |-> "refused", status |-> 0, isJson |-> FALSE, keys |-> {}, body |-> ""]
Upstreams ==
    { UpstreamAnswer(st, j) : st \in UpstreamStatuses, j \in BOOLEAN }
        \cup {UpstreamTimeout, UpstreamRefused}

ProxyBodies == {BodyInvalid, BodyNonObject, BodyNoMessages,
                BodyPrompt(JStr(txt_hello)), BodyPrompt(JNum)}

\* requests.post(url, json=data, timeout=60) / requests.get(url, timeout=5)
UpstreamPost(data, up) ==
    [method |-> "POST", url |-> GenerateUrl, json |-> data,
     timeout |-> GenerateTimeout, outcome |-> up]
UpstreamGet(up) ==
    [method |-> "GET", url |-> TagsUrl, json |-> "none",
     timeout |-> TagsTimeout, outcome |-> up]

\* What a view leaves: the response and the upstream calls it made.
ProxyResult(response, upstreamCalls) == [resp |-> response, calls |-> upstreamCalls]
ProxyError == [FlaskJson(500, {"error"}) EXCEPT !.content = <<"proxy:str(e)">>]

\* data = request.json raises on a body that is not JSON.
RequestJsonRaises(request) ==
    request.contentLength # "ok" \/ request.body.json = "invalid"

\* Faulty variant: the call is tried again after a failure.
generate_retry(request, up) ==
    IF RequestJsonRaises(request) THEN ProxyResult(ProxyError, <<>>)
    ELSE IF up.kind # "response"
    THEN ProxyResult(ProxyError, <<UpstreamPost(request.body, up), UpstreamPost(request.body, up)>>)
    ELSE IF ~up.isJson THEN ProxyResult(ProxyError, <<UpstreamPost(request.body, up)>>)
    ELSE ProxyResult([FlaskJson(200, up.keys) EXCEPT !.content = <<up.body>>],
                     <<UpstreamPost(request.body, up)>>)

\* generate() of complete-localtunnel-setup.py and of docs/colab-setup-*.py
generate(request, up) ==
    IF RequestJsonRaises(request) THEN ProxyResult(ProxyError, <<>>)
    ELSE IF up.kind # "response"
    THEN ProxyResult(ProxyError, <<UpstreamPost(request.body, up)>>)
    ELSE IF ~up.isJson THEN ProxyResult(ProxyError, <<UpstreamPost(request.body, up)>>)
    ELSE ProxyResult([FlaskJson(200, up.keys) EXCEPT !.content = <<up.body>>],
                     <<UpstreamPost(request.body, up)>>)

\* data.get('prompt', '')[:100] raises on a body that is no object and on
\* a prompt that is no string.
PromptSliceRaises(body) ==
    body.json # "object" \/ PromptOf(body).t = "num"

\* generate() of docs/google-colab-setup.py
google_colab_generate(request, up) ==
    IF RequestJsonRaises(request) THEN ProxyResult(ProxyError, <<>>)
    ELSE IF PromptSliceRaises(request.body) THEN ProxyResult(ProxyError, <<>>)
    ELSE IF up.kind # "response"
    THEN ProxyResult(ProxyError, <<UpstreamPost(request.body, up)>>)
    ELSE IF up.status = 200
    THEN IF ~up.isJson THEN ProxyResult(ProxyError, <<UpstreamPost(request.body, up)>>)
         ELSE ProxyResult([FlaskJson(200, up.keys) EXCEPT !.content = <<up.body>>],
                          <<UpstreamPost(request.body, up)>>)
    ELSE ProxyResult([FlaskJson(500, {"error"}) EXCEPT !.content = <<"google_colab:Ollama error">>],
                     <<UpstreamPost(request.body, up)>>)

\* Faulty variant: any answer of the upstream counts as healthy.
proxy_health_anyAnswer(up) ==
    IF up.kind = "response"
    THEN ProxyResult([FlaskJson(200, {"status", "service"}) EXCEPT
                          !.statusField = "healthy"], <<UpstreamGet(up)>>)
    ELSE ProxyResult([FlaskJson(500, {"status"}) EXCEPT
                          !.statusField = "unhealthy"], <<UpstreamGet(up)>>)

\* health() of complete-localtunnel-setup.py and of docs/colab-setup-*.py
proxy_health(up) ==
    IF up.kind = "response" /\ up.status = 200
    THEN ProxyResult([FlaskJson(200, {"status", "service"}) EXCEPT
                          !.statusField = "healthy"], <<UpstreamGet(up)>>)
    ELSE ProxyResult([FlaskJson(500, {"status"}) EXCEPT
                          !.statusField = "unhealthy"], <<UpstreamGet(up)>>)

\* health() of docs/google-colab-setup.py
google_colab_health(up) ==
    IF up.kind = "response" /\ up.status = 200 /\ up.isJson
    THEN ProxyResult([FlaskJson(200, {"status", "service", "models"}) EXCEPT
                          !.statusField = "healthy"], <<UpstreamGet(up)>>)
    ELSE ProxyResult([FlaskJson(500, {"status", "error"}) EXCEPT
                          !.statusField = "unhealthy"], <<UpstreamGet(up)>>)

\* @app.route('/api/generate', methods=['POST']), @app.route('/health', methods=['GET'])
proxy_app(v, request, up) ==
    IF request.path = "/api/generate"
    THEN IF request.method # "POST" THEN ProxyResult(FlaskJson(405, {}), <<>>)
         ELSE IF v = "google_colab_setup" THEN google_colab_generate(request, up)
         ELSE generate(request, up)
    ELSE IF request.path = "/health"
    THEN IF request.method # "GET" THEN ProxyResult(FlaskJson(405, {}), <<>>)
         ELSE IF v = "google_colab_setup" THEN google_colab_health(up)
         ELSE proxy_health(up)
    ELSE ProxyResult(FlaskJson(404, {}), <<>>)

(***************************************************************************)
(* The running script and its handler.                                     *)
(***************************************************************************)
\* BaseHTTPRequestHandler calls do_<METHOD>; Flask routes by path and method.
Handle(v, ready, request, generated, up) ==
    IF v \in ProxyVariants THEN proxy_app(v, request, up).resp
    ELSE IF v = "qwen_bridge_minimal" /\ request.method = "OPTIONS"
    THEN QwenHandler_do_OPTIONS(request)
    ELSE IF v = "tinyllama_server" THEN tinyllama_app(ready, request, generated)
    ELSE IF request.method = "GET" THEN
        CASE v = "gemma2_server" -> gemma2_do_GET(request)
          [] v = "simple_tinyllama_server" -> simple_tinyllama_do_GET(request)
          [] v = "start_gemma2_server" -> start_gemma2_do_GET(request)
          [] v = "start_gemma2_server_for_your_folder" -> your_folder_do_GET(request)
          [] v = "FIXED_GEMMA_SERVER" -> FIXED_do_GET(request)
          [] v = "test_gemma2_server" -> test_gemma2_do_GET(request)
          [] v = "qwen_bridge_minimal" -> QwenHandler_do_GET(request)
    ELSE
        CASE v = "gemma2_server" -> gemma2_do_POST(request)
          [] v = "simple_tinyllama_server" -> simple_tinyllama_do_POST(request)
          [] v = "start_gemma2_server" -> start_gemma2_do_POST(request)
          [] v = "start_gemma2_server_for_your_folder" -> your_folder_do_POST(request)
          [] v = "FIXED_GEMMA_SERVER" -> FIXED_do_POST(request)
          [] v = "test_gemma2_server" -> test_gemma2_do_POST(request)
          [] v = "qwen_bridge_minimal" -> QwenHandler_do_POST(request)

\* The upstream calls the handler makes for the request.
UpstreamCalls(v, request, up) ==
    IF v \in ProxyVariants THEN proxy_app(v, request, up).calls ELSE <<>>

(***************************************************************************)
(* scripts/setup-github-deployment.py: create_package_scripts().           *)
(* package.json is modelled by what json.load makes of it: whether the     *)
(* file exists, what its text parses to (an object, an array, or nothing   *)
(* at all), its `scripts` member (absent, null or an object), the rest of  *)
(* its members as one token, and its layout, which json.load drops and     *)
(* json.dump(indent=2) sets.                                               *)
(***************************************************************************)
DeploymentNames == {"setup", "test-db", "test-gemma", "import-data", "health-check"}

deployment_scripts ==
    ("setup" :> "python scripts/create-models-directory.py") @@
    ("test-db" :> "node -e \"console.log('Testing database connection...')\"") @@
    ("test-gemma" :> "python scripts/test-gemma-connection.py") @@
    ("import-data" :> "tsx scripts/import-sample-data.ts") @@
    ("health-check" :> "curl http://localhost:5000/api/health")

\* The names a `scripts` object of the model may hold: the five above and
\* one script of the project's own.
ScriptNames == DeploymentNames \cup {"dev"}

\* The value of a name that is no key of the object.
Absent == "<absent>"

\* A command the project wrote itself.
OwnCommand == "tsx server/index.ts"

NoEntries == [n \in ScriptNames |-> Absent]

\* The members of package.json other than `scripts`.
RestValues == {"name", "name,version"}

Layouts == {"indent2", "compact"}

NoFile ==
    [exists |-> FALSE, top |-> "none", scripts |-> "absent",
     entries |-> NoEntries, rest |-> "none", layout |-> "none"]

\* The package.json files of the model.
PackageFiles ==
    {NoFile}
    \cup {[exists |-> TRUE, top |-> t, scripts |-> "absent",
           entries |-> NoEntries, rest |-> "none", layout |-> "compact"] :
             t \in {"invalid", "array"}}
    \cup {[exists |-> TRUE, top |-> "object", scripts |-> s,
           entries |-> NoEntries, rest |-> r, layout |-> l] :
             s \in {"absent", "null"}, r \in RestValues, l \in Layouts}
    \cup {[exists |-> TRUE, top |-> "object", scripts |-> "object",
           entries |-> [n \in ScriptNames |-> IF n \in own THEN OwnCommand ELSE Absent],
           rest |-> r, layout |-> l] :
             own \in SUBSET ScriptNames, r \in RestValues, l \in Layouts}

\* json.dump(package_data, f, indent=2) into a file opened with "w".
json_dump(package_data) ==
    [exists |-> TRUE, top |-> "object", scripts |-> "object",
     entries |-> package_data.entries, rest |-> package_data.rest,
     layout |-> "indent2"]

\* Faulty variant: the five commands are assigned whatever the object held.
create_package_scripts_overwriting(file) ==
    IF ~file.exists THEN [file |-> file, outcome |-> "skipped"]
    ELSE IF file.top = "invalid" THEN [file |-> file, outcome |-> "JSONDecodeError"]
    ELSE IF file.top = "array" \/ file.scripts = "null"
    THEN [file |-> file, outcome |-> "TypeError"]
    ELSE [file |-> json_dump(
                     [entries |-> [n \in ScriptNames |->
                                     IF n \in DeploymentNames
                                     THEN deployment_scripts[n]
                                     ELSE file.entries[n]],
                      rest |-> file.rest]),
          outcome |-> "updated"]

\* create_package_scripts(): the file it leaves and how it ended.
\*   skipped: FileNotFoundError was caught and the function returned;
\*   JSONDecodeError: json.load raised on a text that is no JSON;
\*   TypeError: package_data is a list (package_data["scripts"] = {} raises)
\*     or package_data["scripts"] is None (`in` raises);
\*   updated: the file was rewritten.
\* Both exceptions leave the function before open("package.json", "w").
create_package_scripts(file) ==
    IF ~file.exists THEN [file |-> file, outcome |-> "skipped"]
    ELSE IF file.top = "invalid" THEN [file |-> file, outcome |-> "JSONDecodeError"]
    ELSE IF file.top = "array" THEN [file |-> file, outcome |-> "TypeError"]
    ELSE LET scripts == IF file.scripts = "absent" THEN "object" ELSE file.scripts
         IN  IF scripts = "null" THEN [file |-> file, outcome |-> "TypeError"]
             ELSE [file |-> json_dump(
                              [entries |-> [n \in ScriptNames |->
                                              IF n \in DeploymentNames
                                                 /\ file.entries[n] = Absent
                                              THEN deployment_scripts[n]
                                              ELSE file.entries[n]],
                               rest |-> file.rest]),
                   outcome |-> "updated"]

\* No run of the setup script yet.
NotRun == [runs |-> 0, outcome |-> "none", original |-> NoFile, before |-> NoFile]

(***************************************************************************)
(* The state machine.                                                      *)
(*   lifecycle: Starting, Serving, Exited                                  *)
(*   modelCheck: pending, then what check_model() returned: found or       *)
(*       missing; none in a script without the check                       *)
(*   pc: idle (no request), composing (a client is sending req),           *)
(*       answered (the handler has returned, resp is what it left)         *)
(*   errored: an earlier request ended in a 500 or in an exception         *)
(*   malformed: an earlier chat request had a body that was not JSON       *)
(***************************************************************************)
Init ==
    /\ variant \in Variants
    /\ lifecycle = "Starting"
    /\ MODEL_READY = FALSE
    /\ pc = "idle"
    /\ req = NoReq
    /\ resp = NoResp
    /\ errored = FALSE
    /\ malformed = FALSE
    /\ calls = <<>>
    /\ memo = NoMemo
    /\ clients = NoClients
    /\ backlog = <<>>
    /\ serverThread = "select"
    /\ modelCheck = "pending"
    /\ packageJson = NoFile
    /\ setupRun = NotRun

\* Faulty variant: the server is created whatever check_model returned.
StartServer_uncheckedBind(checkOk, loadOk, bindOk) ==
    /\ lifecycle = "Starting"
    /\ modelCheck' = IF variant \notin CheckVariants THEN "none"
                     ELSE IF checkOk THEN "found" ELSE "missing"
    /\ MODEL_READY' = (variant = "tinyllama_server" /\ loadOk)
    /\ lifecycle' = IF ~bindOk THEN "Exited" ELSE "Serving"
    /\ UNCHANGED <<variant, pc, req, resp, errored, malformed, calls, memo, loop, project>>

\* main() / run_server() / the module body of tinyllama_server.py.
\* checkOk: check_model() found the files; loadOk: from_pretrained did not
\* raise; bindOk: the server could bind port 8080.
StartServer(checkOk, loadOk, bindOk) ==
    /\ lifecycle = "Starting"
    /\ modelCheck' = IF variant \notin CheckVariants THEN "none"
                     ELSE IF checkOk THEN "found" ELSE "missing"
    /\ MODEL_READY' = (variant = "tinyllama_server" /\ loadOk)
    /\ lifecycle' = IF variant \in CheckVariants /\ ~checkOk THEN "Exited"
                    ELSE IF ~bindOk THEN "Exited"
                    ELSE "Serving"
    /\ UNCHANGED <<variant, pc, req, resp, errored, malformed, calls, memo, loop, project>>

\* A client opens a connection and sends the request line and headers.
ClientBegin(method, path, contentLength, body) ==
    /\ lifecycle = "Serving"
    /\ pc \in {"idle", "answered"}
    /\ method = "GET" => contentLength = "ok" /\ body = BodyNoMessages
    /\ contentLength # "ok" => body = BodyNoMessages
    /\ req' = [method |-> method, path |-> path,
               contentLength |-> contentLength, body |-> body]
    /\ resp' = NoResp
    /\ calls' = <<>>
    /\ pc' = "composing"
    /\ errored' = (errored \/ (pc = "answered" /\ (resp.status = 500 \/ resp.raised)))
    /\ malformed' = (malformed \/ (pc = "answered" /\ req.method = "POST"
                                      /\ req.path = ChatPath /\ req.contentLength = "ok"
                                      /\ req.body.json = "invalid"))
    /\ UNCHANGED <<variant, lifecycle, MODEL_READY, memo, loop, modelCheck, project>>

\* The client's body carries one more element of `messages`.
ClientAddMessage(m) ==
    /\ lifecycle = "Serving"
    /\ pc = "composing"
    /\ req.method = "POST" /\ req.path = ChatPath
    /\ req.contentLength = "ok"
    /\ req.body.json = "object" /\ req.body.messages = "list"
    /\ Len(req.body.list) < MaxMsgs
    /\ req' = [req EXCEPT !.body.list = Append(@, m)]
    /\ UNCHANGED <<variant, lifecycle, MODEL_READY, pc, resp, errored, malformed, calls, memo, loop, modelCheck, project>>

\* The server reads the request and runs the handler to its end.
\* Faulty variant: a failed generation marks the model as not loaded.
HandleRequest_unloading(generated, up, remember) ==
    /\ lifecycle = "Serving"
    /\ pc = "composing"
    /\ resp' = Handle(variant, MODEL_READY, req, generated, up)
    /\ calls' = UpstreamCalls(variant, req, up)
    /\ pc' = "answered"
    /\ MODEL_READY' = (MODEL_READY /\ generated)
    /\ memo' = IF remember THEN [set |-> TRUE, req |-> req, resp |-> resp'] ELSE memo
    /\ UNCHANGED <<variant, lifecycle, req, errored, malformed, loop, modelCheck, project>>

\* Faulty variant: an exception that leaves the handler ends the process.
HandleRequest_crashing(generated, up, remember) ==
    /\ lifecycle = "Serving"
    /\ pc = "composing"
    /\ resp' = Handle(variant, MODEL_READY, req, generated, up)
    /\ calls' = UpstreamCalls(variant, req, up)
    /\ pc' = "answered"
    /\ lifecycle' = IF Handle(variant, MODEL_READY, req, generated, up).raised
                    THEN "Exited" ELSE lifecycle
    /\ memo' = IF remember THEN [set |-> TRUE, req |-> req, resp |-> resp'] ELSE memo
    /\ UNCHANGED <<variant, MODEL_READY, req, errored, malformed, loop, modelCheck, project>>

\* remember: this request and its response are kept in memo, to be compared
\* with a later request.
HandleRequest(generated, up, remember) ==
    /\ lifecycle = "Serving"
    /\ pc = "composing"
    /\ resp' = Handle(variant, MODEL_READY, req, generated, up)
    /\ calls' = UpstreamCalls(variant, req, up)
    /\ pc' = "answered"
    /\ memo' = IF remember THEN [set |-> TRUE, req |-> req, resp |-> resp'] ELSE memo
    /\ UNCHANGED <<variant, lifecycle, MODEL_READY, req, errored, malformed, loop, modelCheck, project>>

\* The operator stops the process (Ctrl+C).
Shutdown ==
    /\ lifecycle = "Serving"
    /\ lifecycle' = "Exited"
    /\ pc' = "idle"
    /\ req' = NoReq
    /\ resp' = NoResp
    /\ calls' = <<>>
    /\ UNCHANGED <<variant, MODEL_READY, errored, malformed, memo, loop, modelCheck, project>>

Bodies == {BodyInvalid, BodyNonObject, BodyNoMessages, BodyNullMessages,
           BodyMessages(<<>>)}

Next ==
    \/ \E checkOk, loadOk, bindOk \in BOOLEAN : StartServer(checkOk, loadOk, bindOk)
    \/ \E method \in Methods, path \in Paths, cl \in ContentLengths, body \in Bodies :
           ClientBegin(method, path, cl, body)
    \/ \E m \in Msgs : ClientAddMessage(m)
    \/ \E generated \in BOOLEAN : HandleRequest(generated, UpstreamRefused, FALSE)
    \/ Shutdown

Spec == Init /\ [][Next]_vars

(***************************************************************************)
(* The classifier on many texts: a serving canned-response server and a    *)
(* request whose only message is a user message with the text.             *)
(***************************************************************************)
Vocabulary ==
    { <<"F","A","I","L","U","R","E">>,
      <<"E","r","r","o","r">>,
      <<"u","n","u","s","u","a","l">>,
      <<"a","n","o","m","a","l">>,
      <<"i","e","s">>,
      <<"y">>,
      <<"b","o","t","t","l","e">>,
      <<"n","e","c","k">>,
      <<"s">>,
      <<"l","o","w">>,
      <<"d","e","l","a","y">>,
      <<"t","i","m","e">>,
      <<"p","e","r">>,
      <<"f","o","r","m","a","n","c","e">>,
      <<"E","q","u","i","p","m","e","n","t">>,
      <<"m","a","c","h","i","n","e">>,
      <<"s","t","a","t","i","o","n">>,
      <<"d","u","r","a","t","i","o","n">>,
      <<"s","p","e","e","d">>,
      <<" ">>,
      <<"H","e","l","l","o">>,
      <<"f","a","i","l">> }

RECURSIVE Flatten(_)
Flatten(ws) == IF ws = <<>> THEN <<>> ELSE Head(ws) \o Flatten(Tail(ws))

Queries == { Flatten(ws) : ws \in UNION { [1..n -> Vocabulary] : n \in 0..MaxWords } }

UserRequest(text) ==
    [method |-> "POST", path |-> ChatPath, contentLength |-> "ok",
     body |-> BodyMessages(<<[role |-> "user", content |-> JStr(text)]>>)]

InitClassify ==
    /\ variant \in CannedVariants
    /\ lifecycle = "Serving"
    /\ MODEL_READY = FALSE
    /\ pc = "composing"
    /\ req \in { UserRequest(q) : q \in Queries \cup {txt_equipment_status, txt_hello} }
    /\ resp = NoResp
    /\ errored = FALSE
    /\ malformed = FALSE
    /\ calls = <<>>
    /\ memo = NoMemo
    /\ clients = NoClients
    /\ backlog = <<>>
    /\ serverThread = "select"
    /\ modelCheck = IF variant \in CheckVariants THEN "found" ELSE "none"
    /\ packageJson = NoFile
    /\ setupRun = NotRun

NextClassify == \E generated \in BOOLEAN : HandleRequest(generated, UpstreamRefused, FALSE)

SpecClassify == InitClassify /\ [][NextClassify]_vars

(***************************************************************************)
(* Every script, the proxies included, under requests to every route and   *)
(* every outcome of the upstream call.  The bodies carry no message list.  *)
(***************************************************************************)
RoutePaths == Paths \cup {"/api/generate"}
RouteBodies == Bodies \cup ProxyBodies

InitRoutes ==
    /\ variant \in AllVariants
    /\ lifecycle = "Starting"
    /\ MODEL_READY = FALSE
    /\ pc = "idle"
    /\ req = NoReq
    /\ resp = NoResp
    /\ errored = FALSE
    /\ malformed = FALSE
    /\ calls = <<>>
    /\ memo = NoMemo
    /\ clients = NoClients
    /\ backlog = <<>>
    /\ serverThread = "select"
    /\ modelCheck = "pending"
    /\ packageJson = NoFile
    /\ setupRun = NotRun

NextRoutes ==
    \/ \E checkOk, loadOk, bindOk \in BOOLEAN : StartServer(checkOk, loadOk, bindOk)
    \/ \E method \in Methods, path \in RoutePaths, cl \in ContentLengths,
          body \in RouteBodies : ClientBegin(method, path, cl, body)
    \/ \E generated \in BOOLEAN, up \in Upstreams : HandleRequest(generated, up, FALSE)
    \/ Shutdown

SpecRoutes == InitRoutes /\ [][NextRoutes]_vars

(***************************************************************************)
(* A canned-response server answering one request after another, one of   *)
(* the earlier requests and its response being remembered in memo.         *)
(***************************************************************************)
OneMessageBodies == Bodies \cup { BodyMessages(<<m>>) : m \in Msgs }

InitStateless ==
    /\ variant \in CannedVariants
    /\ lifecycle = "Starting"
    /\ MODEL_READY = FALSE
    /\ pc = "idle"
    /\ req = NoReq
    /\ resp = NoResp
    /\ errored = FALSE
    /\ malformed = FALSE
    /\ calls = <<>>
    /\ memo = NoMemo
    /\ clients = NoClients
    /\ backlog = <<>>
    /\ serverThread = "select"
    /\ modelCheck = "pending"
    /\ packageJson = NoFile
    /\ setupRun = NotRun

NextStateless ==
    \/ \E checkOk, loadOk, bindOk \in BOOLEAN : StartServer(checkOk, loadOk, bindOk)
    \/ \E path \in {"/health", "/v1/models", "/other"} :
           ClientBegin("GET", path, "ok", BodyNoMessages)
    \/ \E cl \in ContentLengths, body \in OneMessageBodies :
           ClientBegin("POST", ChatPath, cl, body)
    \/ \E remember \in BOOLEAN : HandleRequest(TRUE, UpstreamRefused, remember)
    \/ Shutdown

SpecStateless == InitStateless /\ [][NextStateless]_vars

(***************************************************************************)
(* The accept loop.  Clients connect in any order; a connection waits in   *)
(* the listen backlog until the server thread accepts it.  HTTPServer and  *)
(* TCPServer run the handler on the server thread; Flask's app.run starts  *)
(* a thread per connection.                                                *)
(*   clients[c]: idle, waiting (in the backlog), reading, processing,      *)
(*               responding                                                *)
(*   serverThread: "select" (waiting for a connection) or the client whose *)
(*               request it is handling                                    *)
(***************************************************************************)
InProcess == {"reading", "processing", "responding"}

\* Faulty variant: every server handles a connection on a thread of its own.
Threaded_everyServer(v) == TRUE

\* HTTPServer(server_address, Handler) / socketserver.TCPServer against
\* app.run(host=..., port=...), whose default is threaded.
Threaded(v) == v \in ProxyVariants \cup {"tinyllama_server"}

InitServe ==
    /\ variant \in AllVariants
    /\ lifecycle = "Starting"
    /\ MODEL_READY = FALSE
    /\ pc = "idle"
    /\ req = NoReq
    /\ resp = NoResp
    /\ errored = FALSE
    /\ malformed = FALSE
    /\ calls = <<>>
    /\ memo = NoMemo
    /\ clients = NoClients
    /\ backlog = <<>>
    /\ serverThread = "select"
    /\ modelCheck = "pending"
    /\ packageJson = NoFile
    /\ setupRun = NotRun

\* A client connects to the bound port and sends its request.
ClientConnect(c) ==
    /\ lifecycle = "Serving"
    /\ clients[c] = "idle"
    /\ clients' = [clients EXCEPT ![c] = "waiting"]
    /\ backlog' = Append(backlog, c)
    /\ UNCHANGED <<variant, lifecycle, MODEL_READY, pc, req, resp, errored, malformed,
                   calls, memo, serverThread, modelCheck, project>>

\* serve_forever: the server thread takes the oldest waiting connection.
Accept ==
    /\ lifecycle = "Serving"
    /\ serverThread = "select"
    /\ backlog # <<>>
    /\ clients' = [clients EXCEPT ![Head(backlog)] = "reading"]
    /\ backlog' = Tail(backlog)
    /\ serverThread' = IF Threaded(variant) THEN "select" ELSE Head(backlog)
    /\ UNCHANGED <<variant, lifecycle, MODEL_READY, pc, req, resp, errored, malformed,
                   calls, memo, modelCheck, project>>

\* The handler has read the request line, the headers and the body.
ReadRequest(c) ==
    /\ lifecycle = "Serving"
    /\ clients[c] = "reading"
    /\ clients' = [clients EXCEPT ![c] = "processing"]
    /\ UNCHANGED <<variant, lifecycle, MODEL_READY, pc, req, resp, errored, malformed,
                   calls, memo, backlog, serverThread, modelCheck, project>>

\* The handler has computed its response.
ProcessRequest(c) ==
    /\ lifecycle = "Serving"
    /\ clients[c] = "processing"
    /\ clients' = [clients EXCEPT ![c] = "responding"]
    /\ UNCHANGED <<variant, lifecycle, MODEL_READY, pc, req, resp, errored, malformed,
                   calls, memo, backlog, serverThread, modelCheck, project>>

\* The response is written and the connection closed; the thread that ran
\* the handler is free again.
Respond(c) ==
    /\ lifecycle = "Serving"
    /\ clients[c] = "responding"
    /\ clients' = [clients EXCEPT ![c] = "idle"]
    /\ serverThread' = IF serverThread = c THEN "select" ELSE serverThread
    /\ UNCHANGED <<variant, lifecycle, MODEL_READY, pc, req, resp, errored, malformed,
                   calls, memo, backlog, modelCheck, project>>

NextServe ==
    \/ \E checkOk, loadOk, bindOk \in BOOLEAN : StartServer(checkOk, loadOk, bindOk)
    \/ \E c \in Clients : ClientConnect(c)
    \/ Accept
    \/ \E c \in Clients : ReadRequest(c)
    \/ \E c \in Clients : ProcessRequest(c)
    \/ \E c \in Clients : Respond(c)
    \/ Shutdown

SpecServe == InitServe /\ [][NextServe]_vars

(***************************************************************************)
(* The prompt of the model-backed Flask server: a loaded, serving server   *)
(* and a chat request whose messages also have a role the prompt format    *)
(* does not know.                                                          *)
(***************************************************************************)
PromptMsgs == [role : Roles \cup {"tool"}, content : Contents]
PromptLists == UNION { [1..n -> PromptMsgs] : n \in 0..MaxMsgs }

InitPrompt ==
    /\ variant = "tinyllama_server"
    /\ lifecycle = "Serving"
    /\ MODEL_READY = TRUE
    /\ pc = "composing"
    /\ req \in { [method |-> "POST", path |-> ChatPath, contentLength |-> "ok",
                  body |-> b] :
                 b \in {BodyNoMessages} \cup { BodyMessages(l) : l \in PromptLists } }
    /\ resp = NoResp
    /\ errored = FALSE
    /\ malformed = FALSE
    /\ calls = <<>>
    /\ memo = NoMemo
    /\ clients = NoClients
    /\ backlog = <<>>
    /\ serverThread = "select"
    /\ modelCheck = "none"
    /\ packageJson = NoFile
    /\ setupRun = NotRun

NextPrompt == \E generated \in BOOLEAN : HandleRequest(generated, UpstreamRefused, FALSE)

SpecPrompt == InitPrompt /\ [][NextPrompt]_vars

(***************************************************************************)
(* The Qwen bridge under GET, POST and OPTIONS requests.                   *)
(***************************************************************************)
QwenMethods == Methods \cup {"OPTIONS"}

InitQwen ==
    /\ variant = "qwen_bridge_minimal"
    /\ lifecycle = "Starting"
    /\ MODEL_READY = FALSE
    /\ pc = "idle"
    /\ req = NoReq
    /\ resp = NoResp
    /\ errored = FALSE
    /\ malformed = FALSE
    /\ calls = <<>>
    /\ memo = NoMemo
    /\ clients = NoClients
    /\ backlog = <<>>
    /\ serverThread = "select"
    /\ modelCheck = "pending"
    /\ packageJson = NoFile
    /\ setupRun = NotRun

NextQwen ==
    \/ \E checkOk, loadOk, bindOk \in BOOLEAN : StartServer(checkOk, loadOk, bindOk)
    \/ \E method \in QwenMethods, path \in Paths, cl \in ContentLengths,
          body \in RouteBodies : ClientBegin(method, path, cl, body)
    \/ HandleRequest(TRUE, UpstreamRefused, FALSE)
    \/ Shutdown

SpecQwen == InitQwen /\ [][NextQwen]_vars

(***************************************************************************)
(* The setup script run on a project directory.  The servers take no step  *)
(* here.                                                                   *)
(*   setupRun.original: package.json before the first run                  *)
(*   setupRun.before: package.json before the latest run                   *)
(***************************************************************************)
InitPackage ==
    /\ variant = "tinyllama_server"
    /\ lifecycle = "Starting"
    /\ MODEL_READY = FALSE
    /\ pc = "idle"
    /\ req = NoReq
    /\ resp = NoResp
    /\ errored = FALSE
    /\ malformed = FALSE
    /\ calls = <<>>
    /\ memo = NoMemo
    /\ clients = NoClients
    /\ backlog = <<>>
    /\ serverThread = "select"
    /\ modelCheck = "pending"
    /\ packageJson \in PackageFiles
    /\ setupRun = NotRun

\* main() reaches create_package_scripts().
RunSetup ==
    /\ setupRun.runs < MaxRuns
    /\ LET done == create_package_scripts(packageJson)
       IN  /\ packageJson' = done.file
           /\ setupRun' = [runs |-> setupRun.runs + 1,
                           outcome |-> done.outcome,
                           original |-> IF setupRun.runs = 0 THEN packageJson
                                        ELSE setupRun.original,
                           before |-> packageJson]
    /\ UNCHANGED <<variant, lifecycle, MODEL_READY, pc, req, resp, errored, malformed,
                   calls, memo, loop, modelCheck>>

NextPackage == RunSetup

SpecPackage == InitPackage /\ [][NextPackage]_vars

(***************************************************************************)
(* Properties.                                                             *)
(***************************************************************************)
Answered == pc = "answered"
IsChatPost == req.method = "POST" /\ req.path = ChatPath
Framed == req.contentLength = "ok"

\* The effective `messages` of a JSON-object body.
MessagesOf(body) == IF body.messages = "list" THEN body.list ELSE <<>>

ValidMsg(m) == m.role \in Roles /\ m.content.t = "str"
ValidChatBody(body) ==
    /\ body.json = "object"
    /\ body.messages = "list"
    /\ \A i \in 1..Len(body.list) : ValidMsg(body.list[i])
UserIndexes(l) == { i \in 1..Len(l) : l[i].role = "user" }
HasUser(body) == UserIndexes(MessagesOf(body)) # {}
FirstUser(l) == CHOOSE i \in UserIndexes(l) : \A j \in UserIndexes(l) : i <= j
LastUser(l) == CHOOSE i \in UserIndexes(l) : \A j \in UserIndexes(l) : j <= i

ValidUserChat == IsChatPost /\ Framed /\ ValidChatBody(req.body) /\ HasUser(req.body)

OkAssistantStop ==
    resp.status = 200 /\ resp.role = "assistant" /\ resp.finish_reason = "stop"

\* C1 as stated: every valid chat request with a user message gets 200,
\* role assistant and finish_reason stop, in every variant that serves the
\* route and in every server state.
C1_Original ==
    (Answered /\ variant \in CannedVariants \cup {"tinyllama_server"} /\ ValidUserChat)
        => OkAssistantStop

\* C1 (amended): a valid chat request with a user message, sent with a
\* numeric Content-Length, gets 200 / assistant / stop from every
\* canned-response variant; the model-backed Flask server gives that answer
\* only when the model loaded at startup, and answers 500 with an `error`
\* field otherwise (always so when the model failed to load).
C1_ValidChatAnswered ==
    (Answered /\ ValidUserChat) =>
        /\ variant \in CannedVariants => OkAssistantStop /\ ~resp.raised
        /\ variant = "tinyllama_server" =>
              /\ resp.status \in {200, 500}
              /\ resp.status = 200 => MODEL_READY /\ OkAssistantStop
              /\ resp.status = 500 => "error" \in resp.keys
              /\ ~MODEL_READY => resp.status = 500

C1_Witness ==
    /\ Answered /\ ValidUserChat
    /\ variant = "gemma2_server"
    /\ Len(req.body.list) = 2 /\ req.body.list[1].role = "system"
    /\ OkAssistantStop

\* C2: whenever the classifier is called, its argument is the content of
\* the first user-role message in list order, or the empty string if there
\* is none or `messages` is absent; and it is called whenever every element
\* before (and including) that message can be read.
C2_FirstUserMessage ==
    (Answered /\ variant \in ClassifierVariants /\ IsChatPost /\ Framed
        /\ req.body.json = "object" /\ req.body.messages # "null") =>
        LET l == MessagesOf(req.body)
            expected == IF UserIndexes(l) = {} THEN <<>>
                        ELSE l[FirstUser(l)].content.v
            readable == /\ \A i \in 1..Len(l) : l[i].role # NoRole
                        /\ UserIndexes(l) # {} => l[FirstUser(l)].content.t # "absent"
        IN /\ resp.classified => resp.query = expected
           /\ readable => resp.classified

C2_Witness ==
    /\ Answered /\ variant \in ClassifierVariants /\ IsChatPost
    /\ Len(MessagesOf(req.body)) = 2
    /\ req.body.list[1].role = "user" /\ req.body.list[2].role = "user"
    /\ req.body.list[1].content = JStr(txt_hello)
    /\ req.body.list[2].content = JStr(txt_equipment_status)
    /\ resp.classified /\ resp.query = txt_hello

\* C3 as stated: with several user-role messages, the classifier is given
\* the latest (last) one.
C3_LatestUserMessage ==
    (Answered /\ variant \in ClassifierVariants /\ IsChatPost /\ Framed
        /\ ValidChatBody(req.body) /\ Cardinality(UserIndexes(MessagesOf(req.body))) > 1) =>
        /\ resp.classified
        /\ resp.query = req.body.list[LastUser(req.body.list)].content.v

(***************************************************************************)
(* The classification table of section 4.2, applied without regard to      *)
(* letter case.                                                            *)
(***************************************************************************)
ContainsIgnoreCase(text, word) ==
    \E i \in 1..(Len(text) - Len(word) + 1) :
        \A k \in 1..Len(word) : LowerChar(text[i + k - 1]) = word[k]

FailureWords == {kw_failure, kw_fail, kw_error}
AnomalyWords == {kw_anomaly, kw_anomalies, kw_unusual}
BottleneckWords == {kw_bottleneck, kw_slow, kw_delay, kw_time, kw_performance}
EquipmentWords == {kw_equipment, kw_machine, kw_station}

Mentions(text, words) == \E w \in words : ContainsIgnoreCase(text, w)

ReferenceTable ==
    << [words |-> FailureWords, topic |-> "Failure-Analysis"],
       [words |-> AnomalyWords, topic |-> "Anomaly-Detection"],
       [words |-> BottleneckWords, topic |-> "Bottleneck"],
       [words |-> EquipmentWords, topic |-> "Equipment"] >>

RECURSIVE FirstMatch(_, _, _)
FirstMatch(table, i, text) ==
    IF i > Len(table) THEN "Default"
    ELSE IF Mentions(text, table[i].words) THEN table[i].topic
    ELSE FirstMatch(table, i + 1, text)

\* The keyword sets each variant's classifier tests (any order).
VariantWords(v) ==
    CASE v = "gemma2_server" ->
            FailureWords \cup AnomalyWords \cup EquipmentWords
                \cup {kw_bottleneck, kw_slow, kw_delay, kw_time}
      [] v = "simple_tinyllama_server" ->
            FailureWords \cup AnomalyWords \cup EquipmentWords
                \cup {kw_bottleneck, kw_slow, kw_delay, kw_time, kw_duration, kw_speed}
      [] v \in {"start_gemma2_server", "start_gemma2_server_for_your_folder"} ->
            FailureWords \cup AnomalyWords
                \cup {kw_bottleneck, kw_slow, kw_delay, kw_performance}
      [] v = "FIXED_GEMMA_SERVER" -> FailureWords \cup AnomalyWords

\* A request whose only message is a user message with a text.
SingleUserText ==
    /\ IsChatPost /\ Framed /\ ValidChatBody(req.body)
    /\ Len(req.body.list) = 1 /\ req.body.list[1].role = "user"
QueryText == req.body.list[1].content.v

\* C4 as stated: in every canned-response variant with a classifier the
\* selected topic is the first match of the reference table.
C4_ReferenceTable ==
    (Answered /\ variant \in ClassifierVariants /\ SingleUserText) =>
        resp.topic = FirstMatch(ReferenceTable, 1, QueryText)

\* C5: a query with both a failure keyword and an anomaly keyword selects
\* Failure-Analysis, whatever the order of the keywords and the letter case.
C5_FailureBeforeAnomaly ==
    (Answered /\ variant \in ClassifierVariants /\ SingleUserText
        /\ Mentions(QueryText, FailureWords) /\ Mentions(QueryText, AnomalyWords)) =>
        resp.status = 200 /\ resp.topic = "Failure-Analysis"

C5_Witness ==
    /\ Answered /\ variant \in ClassifierVariants /\ SingleUserText
    /\ QueryText = <<"u","n","u","s","u","a","l">> \o <<"F","A","I","L","U","R","E">>
    /\ resp.topic = "Failure-Analysis"

\* C6 as stated: a query with an equipment keyword and no keyword of rules
\* 1-3 gets 200, the Equipment topic and finish_reason stop in every
\* canned-response variant with a classifier.
C6_EquipmentScenario ==
    (Answered /\ variant \in ClassifierVariants /\ SingleUserText
        /\ Mentions(QueryText, EquipmentWords)
        /\ ~Mentions(QueryText, FailureWords \cup AnomalyWords \cup BottleneckWords)) =>
        OkAssistantStop /\ resp.topic = "Equipment"

C8_EmptyMessages ==
    (Answered /\ variant \in CannedVariants /\ IsChatPost /\ Framed
        /\ req.body \in {BodyMessages(<<>>), BodyNoMessages}) =>
        /\ OkAssistantStop /\ ~resp.raised
        /\ resp.query = <<>>
        /\ variant \in ClassifierVariants => resp.classified /\ resp.topic = "Default"

C8_Witness ==
    /\ Answered /\ variant = "gemma2_server" /\ IsChatPost
    /\ req.body = BodyNoMessages /\ Framed
    /\ resp.status = 200 /\ resp.topic = "Default" /\ resp.classified

\* C9: a chat body that is not valid JSON gets status 500 with an `error`
\* field, no exception leaves the handler and the server keeps serving; a
\* valid request handled after a malformed one gets its normal 200 answer.
C9_MalformedJson ==
    /\ (Answered /\ variant \in CannedVariants \cup {"tinyllama_server"}
            /\ IsChatPost /\ Framed /\ req.body.json = "invalid") =>
          /\ resp.status = 500 /\ "error" \in resp.keys
          /\ ~resp.raised
          /\ lifecycle = "Serving"
    /\ (Answered /\ malformed /\ variant \in CannedVariants /\ ValidUserChat) =>
          OkAssistantStop

C9_Witness ==
    /\ Answered /\ malformed /\ variant \in CannedVariants
    /\ IsChatPost /\ Framed /\ req.body.json = "invalid"
    /\ resp.status = 500 /\ lifecycle = "Serving"

\* C10 as stated: every error raised while handling a request is turned
\* into a 500 JSON error body; no exception leaves the handler and no
\* request that raised is left without a response.
C10_ErrorsCaught ==
    Answered => (~resp.raised /\ (IsChatPost /\ ~Framed /\ variant \in CannedVariants
                                    => resp.status = 500 /\ "error" \in resp.keys))

\* The routes a variant defines: the facade's three, and the two of the
\* Qwen bridge.
DefinedRoute(v, method, path) ==
    IF v = "qwen_bridge_minimal"
    THEN (method = "GET" /\ path = "/api/health") \/ (method = "POST" /\ path = "/generate")
    ELSE \/ method = "GET" /\ path \in {"/health", "/v1/models"}
         \/ method = "POST" /\ path = ChatPath

\* C11 as stated: a request whose method and path are not a defined route
\* is answered with status 404 and an empty body, in every variant; in
\* particular a POST to any other path is answered 404.
C11_UnknownRoute ==
    (Answered /\ variant \in CannedVariants \cup {"qwen_bridge_minimal"}
        /\ ~DefinedRoute(variant, req.method, req.path)) =>
        (resp.status = 404 /\ resp.keys = {} /\ resp.content = <<>>)

IsHealthGet == req.method = "GET" /\ req.path = "/health"
HealthOk == resp.status = 200 /\ "model_loaded" \in resp.keys

\* C12 as stated: GET /health is answered 200 with a `model_loaded` field
\* in every variant that has the route, whatever the earlier requests and
\* whatever the upstream inference service does.
C12_Original ==
    (Answered /\ IsHealthGet /\ variant \in AllVariants \ {"qwen_bridge_minimal"})
        => HealthOk

\* C12 (amended): GET /health is answered 200 with a `model_loaded` field
\* by every canned-response variant and by the model-backed Flask server,
\* whatever the earlier requests were and without any upstream call.  A
\* proxy's /health makes one probe of the upstream, has no `model_loaded`
\* field, and is 200 only if the probe was answered 200, else 500.
C12_HealthAlwaysOk ==
    (Answered /\ IsHealthGet) =>
        /\ variant \in CannedVariants \cup {"tinyllama_server"} =>
              HealthOk /\ ~resp.raised /\ calls = <<>>
        /\ variant \in ProxyVariants =>
              /\ "model_loaded" \notin resp.keys
              /\ Len(calls) = 1
              /\ resp.status \in {200, 500}
              /\ resp.status = 200 => calls[1].outcome.status = 200

C12_Witness ==
    /\ Answered /\ IsHealthGet /\ variant = "tinyllama_server"
    /\ ~MODEL_READY /\ errored /\ HealthOk

IsGeneratePost == req.method = "POST" /\ req.path = "/api/generate"

\* C13 as stated: a proxy forwards the JSON payload of POST /api/generate
\* unchanged, in one POST to http://localhost:11434/api/generate with a
\* 60 s timeout, and its response has the upstream's JSON body and the
\* upstream's status code, whatever that status is.
C13_RelayUpstream ==
    (Answered /\ variant \in ProxyVariants /\ IsGeneratePost /\ Framed
        /\ req.body.json # "invalid") =>
        /\ Len(calls) = 1
        /\ calls[1].method = "POST" /\ calls[1].url = GenerateUrl
        /\ calls[1].json = req.body /\ calls[1].timeout = 60
        /\ (calls[1].outcome.kind = "response" /\ calls[1].outcome.isJson) =>
              /\ resp.status = calls[1].outcome.status
              /\ resp.keys = calls[1].outcome.keys
              /\ resp.content = <<calls[1].outcome.body>>

UpstreamFailed == \E i \in 1..Len(calls) : calls[i].outcome.kind \in {"timeout", "refused"}

\* C14: when a proxy's upstream call for POST /api/generate times out or
\* cannot connect, the proxy answers 500 with an `error` field, and it has
\* called the upstream exactly once for that request (no retry).
C14_UpstreamFailure ==
    (Answered /\ variant \in ProxyVariants /\ IsGeneratePost /\ UpstreamFailed) =>
        /\ resp.status = 500 /\ "error" \in resp.keys
        /\ ~resp.raised
        /\ Len(calls) = 1
        /\ calls[1].method = "POST" /\ calls[1].url = GenerateUrl

C14_Witness ==
    /\ Answered /\ variant = "colab_setup_no_tokens" /\ IsGeneratePost
    /\ Len(calls) = 1 /\ calls[1].outcome = UpstreamTimeout
    /\ resp.status = 500 /\ "error" \in resp.keys

StatusWrites == {"send_response(200)", "send_response(404)", "send_response(500)"}

\* C15 as stated: nothing (no status line, no header) is written to the
\* client before the whole response body has been assembled.
C15_NoPartialResponse ==
    Answered =>
        \A i, j \in 1..Len(resp.writes) :
            (resp.writes[i] \in StatusWrites /\ resp.writes[j] = "json.dumps") => j < i

Lowercased(text) == [i \in 1..Len(text) |-> LowerChar(text[i])]

\* C17: the topic the classifier selects is determined by the lowercased
\* query text: a query and its lowercased form select the same topic, so two
\* queries that are equal after lowercasing select the same topic.
C17_TopicOfLowercased ==
    (Answered /\ variant \in ClassifierVariants /\ SingleUserText) =>
        /\ resp.classified
        /\ resp.topic = response_text(variant, Lowercased(QueryText)).topic

\* A query typed in upper case that selects a keyword topic.
C17_Witness ==
    /\ Answered /\ variant \in ClassifierVariants /\ SingleUserText
    /\ QueryText # Lowercased(QueryText)
    /\ resp.classified /\ resp.topic = "Failure-Analysis"

\* A query that selects the topic, in every variant that has the topic.
Representative(topic) ==
    CASE topic = "Failure-Analysis" -> kw_failure
      [] topic = "Anomaly-Detection" -> kw_anomaly
      [] topic = "Bottleneck" -> kw_bottleneck
      [] topic = "Equipment" -> kw_equipment
      [] topic = "Timing" -> kw_duration

\* C18: a query that selects a topic other than Default gets that topic's
\* template and nothing else: its text is the text every other query of
\* the topic gets (here: the topic's keyword alone), so two queries of the
\* same topic get identical text.  The Default text contains the query.
C18_StaticTemplates ==
    (Answered /\ variant \in ClassifierVariants /\ SingleUserText) =>
        /\ resp.topic # "Default" =>
              /\ response_text(variant, Representative(resp.topic)).topic = resp.topic
              /\ resp.content = response_text(variant, Representative(resp.topic)).text
              /\ QueryText # <<>> => ~Contains(resp.content, QueryText)
        /\ resp.topic = "Default" => Contains(resp.content, QueryText)

\* Two words of a topic in one query, neither being all of the query.
C18_Witness ==
    /\ Answered /\ variant = "FIXED_GEMMA_SERVER" /\ SingleUserText
    /\ QueryText # kw_failure /\ Len(QueryText) > Len(kw_failure)
    /\ resp.topic = "Failure-Analysis"
    /\ resp.content = <<"FIXED:failure">>

IsModelsGet == req.method = "GET" /\ req.path = "/v1/models"
\* The scripts with a /v1/models route.
ModelsVariants == {"gemma2_server", "simple_tinyllama_server", "start_gemma2_server",
                   "tinyllama_server"}
ModelListOk ==
    /\ resp.status = 200 /\ "data" \in resp.keys
    /\ Len(resp.data) = 1
    /\ resp.data[1] = {"id", "object", "created", "owned_by"}

\* C19 as stated: where the route exists, GET /v1/models is answered 200
\* with a `data` list of one entry with id, object, created and owned_by,
\* in every state of the server, a failed model load included.
C19_Original ==
    (Answered /\ IsModelsGet /\ variant \in ModelsVariants) => ModelListOk

\* C19 (amended): the canned-response variants with the route answer
\* GET /v1/models with 200 and a one-entry `data` list in every state; the
\* model-backed Flask server does so only if the model loaded at startup,
\* and answers 500 with an `error` field and no `data` if it did not.
C19_ModelList ==
    (Answered /\ IsModelsGet /\ variant \in ModelsVariants) =>
        IF variant = "tinyllama_server" /\ ~MODEL_READY
        THEN resp.status = 500 /\ resp.keys = {"error"} /\ resp.data = <<>>
        ELSE ModelListOk

C19_Witness ==
    /\ Answered /\ IsModelsGet /\ variant = "tinyllama_server"
    /\ MODEL_READY /\ errored /\ ModelListOk

\* C20: a running server is Starting or Serving.  It never returns to
\* Starting; it becomes Serving only from Starting, by the start of the
\* server; and once Serving it stays Serving through every request (also
\* one whose handler raised): the only step that leaves Serving is the
\* operator's stop of the process.
C20_Lifecycle ==
    [][ /\ lifecycle' \in {"Starting", "Serving", "Exited"}
        /\ lifecycle' = "Starting" => lifecycle = "Starting"
        /\ (lifecycle' = "Serving" /\ lifecycle # "Serving") =>
              (lifecycle = "Starting" /\ pc' = "idle" /\ req' = NoReq)
        /\ (lifecycle = "Serving" /\ lifecycle' # "Serving") => Shutdown
        /\ (lifecycle = "Serving" /\ (req' # req \/ resp' # resp) /\ pc' # "idle") =>
              lifecycle' = "Serving" ]_vars

\* Still serving after a request whose handler raised, earlier requests
\* having failed as well.
C20_Witness ==
    /\ lifecycle = "Serving" /\ Answered
    /\ resp.raised /\ errored

HTTPServerVariants == CannedVariants
Processing == { c \in Clients : clients[c] \in InProcess }

\* C22: in the HTTPServer-based servers at most one request is in
\* processing at any time, whatever the order in which clients connect: a
\* request in processing is the server thread's, and every other connected
\* client is still waiting to be accepted.
C22_OneAtATime ==
    variant \in HTTPServerVariants =>
        /\ Cardinality(Processing) <= 1
        /\ \A c \in Processing : serverThread = c
        /\ serverThread = "select" => Processing = {}

\* One request in processing while two other clients have connected.
C22_Witness ==
    /\ variant = "gemma2_server"
    /\ clients["c2"] = "processing"
    /\ clients["c1"] = "waiting" /\ clients["c3"] = "waiting"
    /\ backlog = <<"c3", "c1">>

\* C23: a script that checks for the model files serves only if the check
\* succeeded; a process whose check failed has ended without serving, so it
\* has no request and no response.
C23_ServingOnlyIfModelFound ==
    variant \in CheckVariants =>
        /\ lifecycle = "Serving" => modelCheck = "found"
        /\ pc # "idle" => modelCheck = "found"
        /\ modelCheck = "missing" =>
              (lifecycle = "Exited" /\ pc = "idle" /\ req = NoReq /\ resp = NoResp)

C23_Witness ==
    /\ variant = "FIXED_GEMMA_SERVER"
    /\ modelCheck = "missing" /\ lifecycle = "Exited" /\ resp = NoResp

StatusLines == { i \in 1..Len(resp.writes) : resp.writes[i] \in StatusWrites }

\* C24 as stated: a canned-response handler writes exactly one status line
\* for every POST /v1/chat/completions it handles, and the line is 200 only
\* if the body parsed, the user query was extracted and the text generated;
\* otherwise it is a single 500.
C24_OneStatusLine ==
    (Answered /\ variant \in CannedVariants /\ IsChatPost) =>
        /\ Cardinality(StatusLines) = 1
        /\ resp.status \in {200, 500}
        /\ resp.status = 200 => (resp.content # <<>> /\ req.body.json = "object")

\* C25: in a canned-response handler the elements after the first user
\* message are not read: if that message has a text content and every
\* element before it has a role, the answer is 200 for its text, whatever
\* follows; an element without a role before the first user message (or
\* anywhere, if there is no user message) makes the answer 500.
C25_NothingReadAfterFirstUser ==
    (Answered /\ variant \in CannedVariants /\ IsChatPost /\ Framed
        /\ req.body.json = "object" /\ req.body.messages = "list") =>
        LET l == req.body.list
            firstUser == IF UserIndexes(l) = {} THEN Len(l) + 1 ELSE FirstUser(l)
            roleMissingBefore ==
                \E i \in 1..(firstUser - 1) : i <= Len(l) /\ l[i].role = NoRole
        IN /\ (UserIndexes(l) # {} /\ ~roleMissingBefore
                  /\ l[firstUser].content.t = "str") =>
                 (resp.status = 200 /\ resp.query = l[firstUser].content.v)
           /\ roleMissingBefore => (resp.status = 500 /\ "error" \in resp.keys)

\* A well-formed user message followed by an element with neither role nor
\* content.
C25_Witness ==
    /\ Answered /\ variant = "FIXED_GEMMA_SERVER" /\ IsChatPost /\ Framed
    /\ req.body.messages = "list" /\ Len(req.body.list) = 2
    /\ ValidMsg(req.body.list[1]) /\ req.body.list[1].role = "user"
    /\ req.body.list[2].role = NoRole /\ req.body.list[2].content.t = "absent"
    /\ resp.status = 200

\* C26: a Flask server whose model failed to load answers every chat
\* request and every GET /v1/models with 500 and an `error` field without
\* calling the model, and GET /health with 200, status "loading" and
\* model_loaded false; it stays not ready while it serves.  Its health
\* status is "healthy" exactly when model_loaded is true.
C26_NotReady ==
    /\ [](  (Answered /\ variant = "tinyllama_server") =>
              /\ (~MODEL_READY /\ (IsChatPost \/ IsModelsGet)) =>
                    /\ resp.status = 500 /\ "error" \in resp.keys
                    /\ ~resp.invoked /\ resp.prompt = <<>>
              /\ IsHealthGet =>
                    /\ resp.status = 200
                    /\ resp.model_loaded = (IF MODEL_READY THEN "true" ELSE "false")
                    /\ ~MODEL_READY => resp.statusField = "loading"
                    /\ resp.statusField = "healthy" <=> resp.model_loaded = "true" )
    /\ [][ (variant = "tinyllama_server" /\ lifecycle = "Serving" /\ ~MODEL_READY)
               => ~MODEL_READY' ]_vars

\* Health of a server that failed to load, after a chat request it refused.
C26_Witness ==
    /\ variant = "tinyllama_server" /\ ~MODEL_READY /\ errored
    /\ Answered /\ IsHealthGet
    /\ resp.status = 200 /\ resp.statusField = "loading" /\ resp.model_loaded = "false"

OneProbe ==
    /\ Len(calls) = 1
    /\ calls[1].method = "GET" /\ calls[1].url = TagsUrl /\ calls[1].timeout = 5
Healthy == resp.status = 200 /\ resp.statusField = "healthy"
Unhealthy == resp.status = 500 /\ resp.statusField = "unhealthy"

OpenAssistantTag == "<|assistant|>\n"
IsTag(t) == t \in {"<|system|>\n", "<|user|>\n", "<|assistant|>\n"}
IsPromptText(t) == ~IsTag(t) /\ t # "</s>\n"
IsTerminator(t) == t = "</s>\n"
HasPromptRole(m) == m.role \in {"system", "user", "assistant"}
TagOf(m) ==
    IF m.role = "system" THEN "<|system|>\n"
    ELSE IF m.role = "user" THEN "<|user|>\n"
    ELSE "<|assistant|>\n"
Front(s) == SubSeq(s, 1, Len(s) - 1)

\* C28: whenever the Flask server calls the model, the prompt ends with
\* the open assistant tag (also for no messages); before it, the tags are
\* those of the messages with role system, user or assistant, in list
\* order, each segment is closed, and the text between them is the text of
\* exactly those messages: a message of another role adds nothing.
C28_PromptFormat ==
    (Answered /\ variant = "tinyllama_server" /\ IsChatPost /\ resp.invoked) =>
        LET l == MessagesOf(req.body)
            tagged == SelectSeq(l, HasPromptRole)
            p == resp.prompt
        IN /\ p # <<>> /\ p[Len(p)] = OpenAssistantTag
           /\ SelectSeq(Front(p), IsTag) = [i \in 1..Len(tagged) |-> TagOf(tagged[i])]
           /\ Len(SelectSeq(p, IsTerminator)) = Len(tagged)
           /\ SelectSeq(p, IsPromptText) =
                  Flatten([i \in 1..Len(tagged) |-> tagged[i].content.v])
           /\ (tagged = <<>>) => p = <<OpenAssistantTag>>

\* A message of another role before a user message: only the latter is in
\* the prompt.
C28_Witness ==
    /\ Answered /\ variant = "tinyllama_server" /\ IsChatPost /\ resp.invoked
    /\ Len(req.body.list) = 2
    /\ req.body.list[1] = [role |-> "tool", content |-> JStr(txt_equipment_status)]
    /\ req.body.list[2] = [role |-> "user", content |-> JStr(txt_hello)]
    /\ resp.prompt = <<"<|user|>\n">> \o txt_hello \o <<"</s>\n", "<|assistant|>\n">>

\* C29: the Qwen bridge writes status 200 or nothing.  OPTIONS on every
\* path, GET /api/health and a POST /generate with a JSON object are
\* answered 200 with Access-Control-Allow-Origin: *; a GET or POST on
\* another path, and a POST /generate whose body is not JSON, write
\* nothing.  The response text of a POST /generate is "Qwen Analysis: "
\* followed by the prompt, or by nothing if there is no prompt.
C29_QwenBridge ==
    (Answered /\ variant = "qwen_bridge_minimal") =>
        /\ resp.status \in {0, 200}
        /\ resp.status = 200 => resp.allowOrigin = "*"
        /\ resp.status = 0 => resp.writes = <<>>
        /\ req.method = "OPTIONS" => resp.status = 200
        /\ (req.method = "GET" /\ req.path = "/api/health") => resp.status = 200
        /\ (req.method = "GET" /\ req.path # "/api/health") => resp.status = 0
        /\ (req.method = "POST" /\ req.path # "/generate") => resp.status = 0
        /\ (req.method = "POST" /\ req.path = "/generate" /\ Framed) =>
              /\ req.body.json = "invalid" => resp.status = 0
              /\ req.body.json = "object" =>
                    /\ resp.status = 200 /\ "response" \in resp.keys
                    /\ resp.content =
                          <<"Qwen Analysis: ">> \o
                              (IF "prompt" \in DOMAIN req.body THEN req.body.prompt.v
                               ELSE <<>>)

C29_Witness ==
    /\ Answered /\ variant = "qwen_bridge_minimal"
    /\ req.method = "POST" /\ req.path = "/generate"
    /\ req.body = BodyPrompt(JStr(txt_hello))
    /\ resp.status = 200 /\ resp.content = <<"Qwen Analysis: ">> \o txt_hello

(***************************************************************************)
(* C30.  create_package_scripts and the entries of package.json.           *)
(***************************************************************************)
\* The keys of the `scripts` object of a file.
ScriptKeys(file) ==
    IF file.exists /\ file.top = "object" /\ file.scripts = "object"
    THEN {n \in ScriptNames : file.entries[n] # Absent}
    ELSE {}

\* Every key `scripts` had before the first run has the value it had.
KeepsEntries ==
    \A n \in ScriptKeys(setupRun.original) :
        /\ n \in ScriptKeys(packageJson)
        /\ packageJson.entries[n] = setupRun.original.entries[n]

FiveScriptsPresent == DeploymentNames \subseteq ScriptKeys(packageJson)

\* The members other than `scripts` are what they were before the first run.
KeepsRest == packageJson.rest = setupRun.original.rest

\* package.json could be read as an object whose `scripts` is an object or
\* is missing.
Usable(file) ==
    file.exists /\ file.top = "object" /\ file.scripts \in {"absent", "object"}

\* C30 as stated: after create_package_scripts has run on an existing
\* package.json, every key `scripts` had keeps its value, the five deployment
\* scripts are present and the other members are unchanged; a second run
\* leaves the file as the first left it; without a package.json no file is
\* created.
C30_Original ==
    setupRun.runs > 0 =>
        /\ setupRun.original.exists =>
              KeepsEntries /\ FiveScriptsPresent /\ KeepsRest
        /\ setupRun.runs > 1 => packageJson = setupRun.before
        /\ ~setupRun.original.exists => ~packageJson.exists

\* C30, amended: create_package_scripts never changes the value of a key
\* that `scripts` already had and never changes the other members; when
\* package.json holds an object whose `scripts` is an object or is missing,
\* the run rewrites the file with each of the five deployment scripts
\* present, adding exactly the missing ones with their deployment commands;
\* when package.json is no JSON, no object, or has a `scripts` that is no
\* object, the run ends in an exception and leaves the file as it was; a
\* second run leaves the file as the first left it; without a package.json
\* the run creates no file.
C30_PackageScripts ==
    setupRun.runs > 0 =>
        /\ KeepsEntries
        /\ KeepsRest
        /\ (setupRun.outcome = "updated") = Usable(setupRun.original)
        /\ setupRun.outcome = "updated" =>
              /\ FiveScriptsPresent
              /\ \A n \in ScriptKeys(packageJson) \ ScriptKeys(setupRun.original) :
                    n \in DeploymentNames
                    /\ packageJson.entries[n] = deployment_scripts[n]
              /\ packageJson.layout = "indent2"
        /\ setupRun.outcome # "updated" => packageJson = setupRun.original
        /\ (setupRun.outcome = "skipped") = ~setupRun.original.exists
        /\ setupRun.runs > 1 => packageJson = setupRun.before
        /\ ~setupRun.original.exists => ~packageJson.exists

\* Two runs on a compact package.json that had its own `setup` and `dev` and
\* no `test-db`: the first rewrote it, the second left it alone.
C30_Witness ==
    /\ setupRun.runs = 2
    /\ setupRun.outcome = "updated"
    /\ setupRun.original.layout = "compact"
    /\ ScriptKeys(setupRun.original) = {"setup", "dev"}
    /\ packageJson.entries["setup"] = OwnCommand
    /\ packageJson.entries["dev"] = OwnCommand
    /\ packageJson.entries["test-db"] = deployment_scripts["test-db"]
    /\ packageJson = setupRun.before
    /\ packageJson # setupRun.original

====
